---- MODULE Spec2Model ----
(***************************************************************************)
(* Model of streamlit_app.py: the data-loading fallback chain, and the      *)
(* session workflow driven by Streamlit's rerun-per-interaction execution:  *)
(* every user interaction runs the script top to bottom against the         *)
(* persistent st.session_state and the widgets' own state.                  *)
(***************************************************************************)
EXTENDS Integers, Sequences, FiniteSets, TLC

(* ------------------------------------------------------------------ *)
(* Python's None and "a value": None is <<>>, a value v is <<v>>.      *)
(* ------------------------------------------------------------------ *)
None == <<>>
Some(v) == <<v>>
Val(o) == o[1]

(* ------------------------------------------------------------------ *)
(* Bounds of the model                                                 *)
(* ------------------------------------------------------------------ *)
\* rows of the largest date of the full table (the spec's 3-record scenario)
MaxRows == 3

\* the dates the date picker offers (a sample of its 2011-01-01..2011-12-31 range)
D1 == "2011-06-01"
D2 == "2011-06-02"
D3 == "2011-06-03"
PickerDates == {D1, D2, D3}
DefaultDate == D1

(* ------------------------------------------------------------------ *)
(* Result stores: what a snapshot file or an in-memory table holds.    *)
(* A table is wellformed (a DataFrame with a Timestamp column) or not  *)
(* (any other pickled object: every query on it raises).               *)
(* ------------------------------------------------------------------ *)
Row(d, r) == [Timestamp |-> d, rec |-> r]

\* content of full_pivot_df.pkl: MaxRows rows on D1, none on D2, one on D3
PklFullContent ==
    [wellformed |-> TRUE,
     rows |-> [i \in 1..MaxRows |-> Row(D1, i)] \o <<Row(D3, MaxRows + 1)>>]
\* content of test_pivot_df.pkl: rows on D1 and D2 interleaved
PklTestContent ==
    [wellformed |-> TRUE,
     rows |-> [i \in 1..MaxRows |-> Row(IF i % 2 = 1 THEN D2 ELSE D1, 10 + i)]]
\* __main__.full_pivot_df: one row on D2
MainFullContent ==
    [wellformed |-> TRUE, rows |-> <<Row(D2, 21)>>]
\* __main__.test_pivot_df: an object that is no table
MainTestContent ==
    [wellformed |-> FALSE, rows |-> <<>>]

VARIABLES
    pkl_full,        \* full_pivot_df.pkl: None (no such file) or Some(content)
    pkl_test,        \* test_pivot_df.pkl
    main_full,       \* __main__.full_pivot_df: None (no such attribute) or Some(table)
    main_test,       \* __main__.test_pivot_df
    functions_found, \* get_anomalies_by_date and explain_single_anomaly importable
    cache_data,      \* st.cache_data memo of load_prediction_data: None or Some(result)
    prediction_df,   \* the script's prediction_df in the last run
    date_input,      \* value of the sidebar date picker
    selectbox,       \* state of the anomaly selectbox: None or Some([options, value])
    session_state,   \* st.session_state: selected_date, anomalies, selected_anomaly, selected_index
    ui,              \* what the last run rendered
    report,          \* what the last run rendered for the explanation
    inflight,        \* the explain_single_anomaly call in progress: None or Some([date, index])
    pending,         \* a user interaction received while the call is in progress
    calls,           \* the external calls of the last run
    lastEvent,       \* the interaction that triggered the last run
    pre,             \* st.session_state before the last run
    returned,        \* the outcome of explain_single_anomaly in the last run: None or Some(outcome)
    committed,       \* line 198 ran in the last run
    heldFor          \* the (date, index) of the request whose result session_state holds

env == <<pkl_full, pkl_test, main_full, main_test, functions_found>>
vars == <<pkl_full, pkl_test, main_full, main_test, functions_found, cache_data,
          prediction_df, date_input, selectbox, session_state, ui, report,
          inflight, pending, calls, lastEvent, pre, returned, committed, heldFor>>

(* ------------------------------------------------------------------ *)
(* Data Loader                                                         *)
(* ------------------------------------------------------------------ *)
\* faulty variant: the two files tried in the other order
load_prediction_data_swapped(full, test) ==
    IF test # None THEN Some(Val(test))
    ELSE IF full # None THEN Some(Val(full))
    ELSE None

\* load_prediction_data(): full_pivot_df.pkl if it exists, else
\* test_pivot_df.pkl if it exists, else None
load_prediction_data(full, test) ==
    IF full # None THEN Some(Val(full))
    ELSE IF test # None THEN Some(Val(test))
    ELSE None

\* @st.cache_data: the first call's result is memoized, None included
cached_load(memo, full, test) ==
    IF memo # None THEN Val(memo) ELSE load_prediction_data(full, test)

\* lines 58-68: the file result, or else __main__.full_pivot_df, or else
\* __main__.test_pivot_df, or else None
resolve_prediction_df(loaded, mfull, mtest) ==
    IF loaded # None THEN loaded
    ELSE IF mfull # None THEN Some(Val(mfull))
    ELSE IF mtest # None THEN Some(Val(mtest))
    ELSE None

\* line 77: the script stops when a function is missing
functions_missing(found) == ~found

\* faulty variant: the check of line 88 left out
data_unavailable_never(df) == FALSE

\* line 88: the script stops when no table was found
data_unavailable(df) == df = None

(* ------------------------------------------------------------------ *)
(* External collaborators (anomaly_functions)                          *)
(* ------------------------------------------------------------------ *)
\* get_anomalies_by_date raises on anything that is no table
query_raises(df) == df = None \/ ~Val(df).wellformed

\* get_anomalies_by_date(date, df): the rows of that date, in table order
get_anomalies_by_date(date, df) ==
    SelectSeq(Val(df).rows, LAMBDA r : r.Timestamp = date)

\* A dict returned by explain_single_anomaly: each key is absent (None) or present
Dict(e, a) == [explanation |-> e, anomaly |-> a]
Texts == {"", "X", "Y"}

\* what explain_single_anomaly(date, index, df, ...) can do: raise, return None,
\* or return a dict with or without the keys 'explanation' and 'anomaly'
explain_outcomes(date, index, df) ==
    LET anoms == IF query_raises(df) THEN <<>> ELSE get_anomalies_by_date(date, df)
        rec == IF index # None /\ Val(index) + 1 \in DOMAIN anoms
               THEN Some(anoms[Val(index) + 1]) ELSE None
    IN  {[raised |-> TRUE, value |-> None]}
        \cup {[raised |-> FALSE, value |-> None]}
        \cup {[raised |-> FALSE, value |-> Some(Dict(None, a))] : a \in {None, rec}}
        \cup {[raised |-> FALSE, value |-> Some(Dict(Some(t), rec))] : t \in Texts}

(* ------------------------------------------------------------------ *)
(* Session workflow: the pieces of one script run                      *)
(* ------------------------------------------------------------------ *)
BlankSession ==
    [selected_date |-> None, anomalies |-> None,
     selected_anomaly |-> None, selected_index |-> None]

\* faulty variant: line 120 left out
find_anomalies_click_keeps_explanation(ss, date_str) ==
    [ss EXCEPT !.selected_date = Some(date_str), !.anomalies = None,
               !.selected_index = None]

\* lines 117-121: the Find Anomalies button
find_anomalies_click(ss, date_str) ==
    [selected_date |-> Some(date_str), anomalies |-> None,
     selected_anomaly |-> None, selected_index |-> None]

\* line 124: a date is confirmed
date_confirmed(ss) == ss.selected_date # None

\* faulty variant: line 125 left out, date_str stays the picker's date
query_date_from_picker(ss, picker) == picker

\* line 125: date_str is overridden by the confirmed date
query_date(ss, picker) == Val(ss.selected_date)

\* faulty variant: only None is taken for "no anomalies"
no_anomalies_only_none(anomalies) == anomalies = None

\* line 130: the empty-result branch
no_anomalies(anomalies) == anomalies = None \/ Len(Val(anomalies)) = 0

\* faulty variant: range(len(anomalies) + 1)
anomaly_indices_off_by_one(anomalies) == 0 .. Len(anomalies)

\* line 160: list(range(len(anomalies)))
anomaly_indices(anomalies) == 0 .. Len(anomalies) - 1

\* lines 161-165: st.selectbox without a key. The widget is identified by its
\* label and its formatted options (each names the anomaly's time and activity):
\* rendered with the options of the last run it keeps its value, otherwise it
\* is a new widget showing the first option (None when there is no option).
selectbox_value(widget, anomalies) ==
    IF widget # None /\ Val(widget).options = anomalies
       /\ Val(widget).value \in {Some(i) : i \in anomaly_indices(anomalies)}
    THEN Val(widget).value
    ELSE IF anomaly_indices(anomalies) = {} THEN None ELSE Some(0)

\* line 197: result and 'explanation' in result and result['explanation']
is_success(result) ==
    /\ result # None
    /\ (Val(result).explanation # None \/ Val(result).anomaly # None)
    /\ Val(result).explanation # None
    /\ Val(Val(result).explanation) # ""

\* faulty variant: a held result is not replaced
store_result_keep_first(ss, result) ==
    IF ss.selected_anomaly # None THEN ss
    ELSE [ss EXCEPT !.selected_anomaly = Some(Val(result))]

\* line 198: st.session_state['selected_anomaly'] = result
store_result(ss, result) == [ss EXCEPT !.selected_anomaly = Some(Val(result))]

(* ------------------------------------------------------------------ *)
(* One run of the script, top to bottom                                *)
(* ------------------------------------------------------------------ *)
NoCalls == [query |-> None, explain |-> None]
Request(d, i) == [date |-> d, index |-> i]
SidebarShown == ui \in {"idle", "no_anomalies", "found", "query_error"}
Quiet == inflight = None /\ pending = None

\* st.stop() at line 85 or line 101: nothing below it runs
Stop(shown) ==
    /\ ui' = shown
    /\ session_state' = session_state
    /\ selectbox' = None
    /\ report' = "none"
    /\ inflight' = None
    /\ calls' = NoCalls

\* kind: the interaction that caused the run; picker, widget: the values the
\* date picker and the selectbox hold in this run. A run caused by the
\* Generate button ends here at the call of explain_single_anomaly (line 187).
Run(kind, picker, widget) ==
    LET loaded == cached_load(cache_data, pkl_full, pkl_test)
        df == resolve_prediction_df(loaded, main_full, main_test)
        ss1 == IF kind = "find" THEN find_anomalies_click(session_state, picker)
               ELSE session_state
    IN  /\ cache_data' = Some(loaded)
        /\ prediction_df' = df
        /\ lastEvent' = kind
        /\ pre' = session_state
        /\ date_input' = picker
        /\ UNCHANGED env
        /\ IF functions_missing(functions_found) THEN Stop("functions_missing")
           ELSE IF data_unavailable(df) THEN Stop("data_unavailable")
           ELSE IF ~date_confirmed(ss1) THEN
                /\ ui' = "idle"
                /\ session_state' = ss1
                /\ selectbox' = None
                /\ report' = "none"
                /\ inflight' = None
                /\ calls' = NoCalls
           ELSE LET date_str == query_date(ss1, picker) IN
                IF query_raises(df) THEN
                    /\ ui' = "query_error"
                    /\ session_state' = ss1
                    /\ selectbox' = None
                    /\ report' = "none"
                    /\ inflight' = None
                    /\ calls' = [query |-> Some(date_str), explain |-> None]
                ELSE LET anomalies == Some(get_anomalies_by_date(date_str, df)) IN
                     IF no_anomalies(anomalies) THEN
                         /\ ui' = "no_anomalies"
                         /\ session_state' = ss1
                         /\ selectbox' = None
                         /\ report' = "none"
                         /\ inflight' = None
                         /\ calls' = [query |-> Some(date_str), explain |-> None]
                     ELSE LET selected_index == selectbox_value(widget, Val(anomalies)) IN
                         /\ ui' = "found"
                         /\ session_state' = [ss1 EXCEPT !.anomalies = anomalies,
                                                         !.selected_index = selected_index]
                         /\ selectbox' = Some([options |-> Val(anomalies),
                                               value |-> selected_index])
                         /\ IF kind = "generate"
                            THEN /\ report' = "spinner"
                                 /\ inflight' = Some(Request(date_str, selected_index))
                                 /\ calls' = [query |-> Some(date_str),
                                              explain |-> Some(Request(date_str, selected_index))]
                            ELSE /\ report' = "none"
                                 /\ inflight' = None
                                 /\ calls' = [query |-> Some(date_str), explain |-> None]
        /\ heldFor' = IF session_state'.selected_anomaly = None THEN None ELSE heldFor
        /\ returned' = None
        /\ committed' = FALSE

(* ------------------------------------------------------------------ *)
(* Actions: the user's interactions                                    *)
(* ------------------------------------------------------------------ *)
\* the page is opened or reloaded
Load ==
    /\ Quiet
    /\ Run("load", date_input, selectbox)
    /\ pending' = None

\* the date picker is changed (lines 105-110)
PickDate(d) ==
    /\ Quiet /\ SidebarShown
    /\ d # date_input
    /\ Run("pick", d, selectbox)
    /\ pending' = None

\* the Find Anomalies button is pressed (line 117)
ClickFind ==
    /\ Quiet /\ SidebarShown
    /\ Run("find", date_input, selectbox)
    /\ pending' = None

\* another option of the selectbox is chosen (line 161)
Choose(i) ==
    /\ Quiet /\ ui = "found"
    /\ i \in anomaly_indices(Val(selectbox).options)
    /\ Some(i) # Val(selectbox).value
    /\ Run("choose", date_input, Some([Val(selectbox) EXCEPT !.value = Some(i)]))
    /\ pending' = None

\* the Generate LLM Explanation button is pressed (line 169): the run reaches
\* the call of explain_single_anomaly
ClickGenerate ==
    /\ Quiet /\ ui = "found"
    /\ Run("generate", date_input, selectbox)
    /\ pending' = None

\* an interaction made while explain_single_anomaly runs: Streamlit queues the
\* rerun until the running script reaches a point where it can be stopped
Interaction(k, d, i) == [kind |-> k, date |-> d, index |-> i]
Interrupt(ev) ==
    /\ inflight # None /\ pending = None
    /\ \/ ev.kind = "pick" /\ ev.date # date_input
       \/ ev.kind = "find"
       \/ ev.kind = "choose" /\ ev.index \in anomaly_indices(Val(selectbox).options)
                             /\ Some(ev.index) # Val(selectbox).value
    /\ pending' = Some(ev)
    /\ UNCHANGED <<env, cache_data, prediction_df, date_input, selectbox, session_state,
                   ui, report, inflight, calls, lastEvent, pre, returned, committed,
                   heldFor>>

\* explain_single_anomaly returns or raises (lines 187-251). With a rerun queued
\* the script is stopped at the first stopping point after the call: the write
\* of st.session_state at line 198 (atWrite), or else the st.* call after it.
ExplainReturns(o, atWrite) ==
    /\ inflight # None
    /\ LET success == ~o.raised /\ is_success(o.value)
           commit == success /\ ~(pending # None /\ atWrite)
       IN  /\ session_state' = IF commit THEN store_result(session_state, o.value)
                               ELSE session_state
           /\ committed' = commit
           /\ heldFor' = IF commit THEN inflight ELSE heldFor
           /\ report' = IF pending # None THEN "none"
                        ELSE IF success THEN "shown"
                        ELSE IF o.raised THEN "error"
                        ELSE "failed"
    /\ returned' = Some(o)
    /\ inflight' = None
    /\ UNCHANGED <<env, cache_data, prediction_df, date_input, selectbox, ui, pending,
                   calls, lastEvent, pre>>

\* the call in progress ends, with any of its outcomes
Returns ==
    /\ inflight # None
    /\ \E atWrite \in BOOLEAN :
         \E o \in explain_outcomes(Val(inflight).date, Val(inflight).index,
                                   prediction_df) :
             ExplainReturns(o, atWrite)

\* the queued interaction's rerun
Deliver ==
    /\ inflight = None /\ pending # None
    /\ LET ev == Val(pending) IN
         Run(ev.kind,
             IF ev.kind = "pick" THEN ev.date ELSE date_input,
             IF ev.kind = "choose"
             THEN Some([Val(selectbox) EXCEPT !.value = Some(ev.index)])
             ELSE selectbox)
    /\ pending' = None

Init ==
    /\ pkl_full \in {None, Some(PklFullContent)}
    /\ pkl_test \in {None, Some(PklTestContent)}
    /\ main_full \in {None, Some(MainFullContent)}
    /\ main_test \in {None, Some(MainTestContent)}
    /\ functions_found \in BOOLEAN
    /\ cache_data = None
    /\ prediction_df = None
    /\ date_input = DefaultDate
    /\ selectbox = None
    /\ session_state = BlankSession
    /\ ui = "not_run"
    /\ report = "none"
    /\ inflight = None
    /\ pending = None
    /\ calls = NoCalls
    /\ lastEvent = "none"
    /\ pre = BlankSession
    /\ returned = None
    /\ committed = FALSE
    /\ heldFor = None

Next ==
    \/ Load
    \/ \E d \in PickerDates : PickDate(d)
    \/ ClickFind
    \/ \E i \in 0 .. MaxRows : Choose(i)
    \/ ClickGenerate
    \/ \E d \in PickerDates, i \in 0 .. MaxRows :
          \E k \in {"pick", "find", "choose"} : Interrupt(Interaction(k, d, i))
    \/ Returns
    \/ Deliver

Spec == Init /\ [][Next]_vars

(* ------------------------------------------------------------------ *)
(* Vocabulary of the properties                                        *)
(* ------------------------------------------------------------------ *)
\* the data sources in the spec's priority order
Sources == <<pkl_full, pkl_test, main_full, main_test>>
Ran == ui # "not_run"
Halted == ui \in {"functions_missing", "data_unavailable"}
\* the positions of the table's rows that fall on date d
RowsOn(d, df) == {k \in DOMAIN Val(df).rows : Val(df).rows[k].Timestamp = d}
Usable(df) == df # None /\ Val(df).wellformed
ConfirmedDate == Val(session_state.selected_date)
Failed(o) == o.raised \/ ~is_success(o.value)

(* C5: after the loader has run, prediction_df is the content of the first
   source, in the order full_pivot_df.pkl, test_pivot_df.pkl,
   __main__.full_pivot_df, __main__.test_pivot_df, that exists (the sources
   hold pairwise different tables, so it is no other source's content and no
   merge), and it is None exactly when no source exists. *)
C5_FirstSourceWins ==
    Ran =>
      /\ \A k \in 1..4 :
            (Sources[k] # None /\ \A j \in 1..(k - 1) : Sources[j] = None)
               => prediction_df = Sources[k]
      /\ (prediction_df = None) <=> (\A k \in 1..4 : Sources[k] = None)

\* a lower-priority source is passed over although it exists
C5_Witness ==
    /\ Ran
    /\ pkl_full = None /\ pkl_test # None /\ main_full # None /\ main_test # None
    /\ prediction_df = pkl_test

(* C4: when no source exists the script stops before the sidebar is drawn
   (at line 101, or at line 85 when the functions are missing too): no date is
   ever confirmed, neither external function is ever called, and
   st.session_state stays as it was created. *)
C4_DataUnavailableHalts ==
    (Ran /\ \A k \in 1..4 : Sources[k] = None) =>
      /\ Halted
      /\ functions_found => ui = "data_unavailable"
      /\ lastEvent = "load"
      /\ calls = NoCalls /\ inflight = None /\ returned = None
      /\ session_state = BlankSession /\ pre = BlankSession
      /\ ~ENABLED ClickFind /\ ~ENABLED ClickGenerate

C4_Witness ==
    /\ ui = "data_unavailable" /\ lastEvent = "load"
    /\ \A k \in 1..4 : Sources[k] = None

(* C2: explain_single_anomaly is called only with the confirmed date and an
   index i with 0 <= i < n, where n > 0 is the number of rows of the table on
   the confirmed date. *)
C2_GeneratorIndexInRange ==
    /\ inflight # None => calls.explain = inflight
    /\ calls.explain # None =>
         LET r == Val(calls.explain) IN
           /\ Usable(prediction_df)
           /\ session_state.selected_date = Some(r.date)
           /\ r.index # None
           /\ Cardinality(RowsOn(r.date, prediction_df)) > 0
           /\ 0 <= Val(r.index)
           /\ Val(r.index) < Cardinality(RowsOn(r.date, prediction_df))

\* the last anomaly of the longest list is explained
C2_Witness ==
    /\ inflight # None
    /\ Val(inflight).index = Some(MaxRows - 1)
    /\ Cardinality(RowsOn(Val(inflight).date, prediction_df)) = MaxRows

(* C6: confirming a date on which a usable table has no row renders the
   "no anomalies" warning, which is neither the data-unavailable stop nor the
   query error; st.session_state holds no list, no index and no explanation;
   no anomaly can be chosen and no explanation requested, and a date can be
   confirmed again. *)
C6_NoMatchIsInformational ==
    (/\ lastEvent = "find"
     /\ Usable(prediction_df)
     /\ RowsOn(ConfirmedDate, prediction_df) = {}) =>
      /\ ui = "no_anomalies"
      /\ session_state.selected_date = Some(date_input)
      /\ session_state.anomalies = None
      /\ session_state.selected_index = None
      /\ session_state.selected_anomaly = None
      /\ selectbox = None /\ inflight = None
      /\ calls = [query |-> session_state.selected_date, explain |-> None]
      /\ ~ENABLED ClickGenerate
      /\ \A i \in 0 .. MaxRows : ~ENABLED Choose(i)
      /\ ENABLED ClickFind

\* an empty date is confirmed after an explanation was held for another date
C6_Witness ==
    /\ lastEvent = "find" /\ ui = "no_anomalies"
    /\ pre.selected_anomaly # None
    /\ pre.selected_date # session_state.selected_date

C3_FailureLeavesNoExplanation ==
    (returned # None /\ pending = None /\ Failed(Val(returned))) =>
      /\ report \in {"failed", "error"}
      /\ session_state.selected_date = pre.selected_date
      /\ session_state.selected_index = pre.selected_index
      /\ session_state.selected_anomaly = None
      /\ ENABLED ClickGenerate

(* C7: when explain_single_anomaly returns a dict with a non-empty
   explanation (and no interaction is queued), the report is shown and
   st.session_state['selected_anomaly'] is exactly the returned dict, whatever
   was held before; right after a date is confirmed it is None. *)
C7_SuccessHoldsReturnedResult ==
    /\ (returned # None /\ pending = None /\ ~Failed(Val(returned))) =>
          /\ report = "shown"
          /\ committed
          /\ session_state.selected_anomaly = Some(Val(Val(returned).value))
          /\ heldFor = calls.explain
    /\ report = "shown" => returned # None /\ ~Failed(Val(returned))
    /\ (lastEvent = "find" /\ pre.selected_anomaly # None) =>
          session_state.selected_anomaly = None

\* a second successful request replaces a different held result
C7_Witness ==
    /\ report = "shown"
    /\ pre.selected_anomaly # None
    /\ pre.selected_anomaly # session_state.selected_anomaly

(* C8, as stated: when Find Anomalies was pressed while explain_single_anomaly
   was running, the call's result is not written to st.session_state. *)
C8_StaleResultDiscarded ==
    (returned # None /\ pending # None /\ Val(pending).kind = "find") => ~committed

(* C9: the confirmed date changes only in a run caused by Find Anomalies; a
   run caused by changing the date picker leaves st.session_state as it was;
   get_anomalies_by_date and explain_single_anomaly are called with the
   confirmed date. *)
C9_OnlyConfirmChangesDate ==
    /\ session_state.selected_date # pre.selected_date => lastEvent = "find"
    /\ lastEvent = "pick" => session_state = pre
    /\ calls.query # None => calls.query = session_state.selected_date
    /\ calls.explain # None =>
          Some(Val(calls.explain).date) = session_state.selected_date
    /\ ~Halted /\ Ran =>
          (calls.query = None <=> session_state.selected_date = None)

\* the picker shows another date than the confirmed one, whose list, index and
\* explanation are held, and the query ran
C9_Witness ==
    /\ lastEvent = "pick"
    /\ session_state.selected_date # None
    /\ date_input # ConfirmedDate
    /\ calls.query # None
    /\ session_state.selected_index # None
    /\ Val(session_state.selected_index) > 0
    /\ session_state.selected_anomaly # None

(* C10, as stated: a held explanation was produced by the request for the
   confirmed date and the selected index. *)
C10_HeldExplanationMatchesSelection ==
    session_state.selected_anomaly # None =>
      heldFor = Some(Request(ConfirmedDate, session_state.selected_index))

====
